---- MODULE Spec2Model ----
(***************************************************************************)
(* Client-side authorization gate of the CF admin dashboard:               *)
(*   - AuthProvider (hooks/useAuth): bootstrap `init`, the                  *)
(*     onAuthStateChange callback, signIn, signOut;                        *)
(*   - ProtectedRoute (components/ProtectedRoute.tsx and its other          *)
(*     revision), Login;                                                   *)
(*   - RestaurantModal: the CEP lookup of the form;                        *)
(*   - NewPartnershipModal: toggleFavoriteMutation.                        *)
(* Every await of the source is a suspension point: the code between two   *)
(* awaits runs as one step of the single-threaded event loop.              *)
(***************************************************************************)
EXTENDS Naturals, FiniteSets, Sequences, Bags, TLC

\* ------------------------------------------------------------------ bounds
MaxHandlers == 1     \* onAuthStateChange callbacks suspended at the same time
MaxSignOuts == 1     \* signOut() calls suspended at the same time
MaxSignIns == 1      \* signIn() calls suspended at the same time

\* ------------------------------------------------------------------ values
UserIds == {"A", "B"}
MetaFlags == {"undef", "true", "false"}           \* user_metadata.is_cf
NoUser == [id |-> "none", is_cf |-> "undef"]      \* user === null
Users == [id : UserIds, is_cf : MetaFlags]
NullSession == [user |-> NoUser]                  \* session === null
Sessions == [user : Users]
Absent == "<absent>"                              \* localStorage.getItem -> null
Malformed == "{"                                  \* a stored value JSON.parse rejects
\* what the browser may hold under the key 'isCfUser' when the page is loaded
StoredValues == {Absent, "true", "false", Malformed}

RpcOutcomes == {"true", "false", "error", "reject"}   \* supabase.rpc('is_cf')
RpcFails == {"false", "error", "reject"}
UpdOutcomes == {"ok", "error", "reject"}              \* supabase.auth.updateUser
OutOutcomes == {"ok", "reject"}                       \* supabase.auth.signOut
GetOutcomes == {"ok", "reject"}                       \* supabase.auth.getSession
InOutcomes == {"ok", "error", "reject"}               \* signInWithPassword

VARIABLES
  user,          \* useState<User | null>
  session,       \* useState<Session | null>
  loading,       \* useState(true)
  isCfUser,      \* useState<boolean | null>: "null" | "true" | "false"
  localStorage,  \* value stored under the key 'isCfUser', or Absent
  initP,         \* the run of init()
  cbs,           \* bag of the suspended runs of the onAuthStateChange callback
  outP,          \* number of suspended runs of signOut()
  verified,      \* user ids for which rpc('is_cf') returned a truthy result
  finished,      \* the run that returned in the last step (NoRun otherwise)
  fired,         \* the callback was invoked since the page was loaded
  harness,       \* scenario driver of SpecRace and SpecSignIn; "off" under Spec
  inP,           \* number of suspended runs of signIn()
  modal,         \* RestaurantModal: the CEP part of the form and its lookup
  favs           \* partnerships of one restaurant and the favorite mutations

vars == <<user, session, loading, isCfUser, localStorage, initP, cbs, outP,
          verified, finished, fired, harness, inP, modal, favs>>

\* the variables of the AuthProvider and of the scenarios around it
authVars == <<user, session, loading, isCfUser, localStorage, initP, cbs,
              outP, verified, finished, fired, harness, inP>>

\* A run of an async function: where it is suspended, what it was given and
\* what its collaborators answered so far.
NoRun == [kind |-> "none", pc |-> "idle", s |-> NullSession, lsAt |-> Absent,
          gs |-> "none", rpc |-> "none", upd |-> "none", so |-> "none",
          si |-> "none",
          toast |-> FALSE, threw |-> FALSE]
NewRun(k, p) == [NoRun EXCEPT !.kind = k, !.pc = p]
Done(r) == [r EXCEPT !.pc = "done"]
Escaped(r) == [r EXCEPT !.pc = "done", !.threw = TRUE]

HarnessOff == [phase |-> "off", s |-> NullSession, r |-> "true", u |-> "ok",
               o |-> "ok", resInit |-> <<"null", TRUE>>,
               resCb |-> <<"null", TRUE>>]

\* ----------------------------------------------------------- pure helpers
\* JSON.parse(localStorage.getItem('isCfUser') ?? 'null')
JSONparse(v) ==
  IF v = Absent THEN "null"
  ELSE IF v \in {"true", "false", "null"} THEN v
  ELSE "throw"

\* JSON.stringify(isCf) for the truthy isCf the rpc returned
JSONstringify(isCf) == isCf

\* Boolean(cached)
BooleanOf(c) == IF c = "true" THEN "true" ELSE "false"

\* cached without the localStorage fallback
CachedMetaOnly(u, ls) == IF u.is_cf # "undef" THEN u.is_cf ELSE "null"

\* session?.user?.user_metadata?.is_cf ?? JSON.parse(...)
Cached(u, ls) == IF u.is_cf # "undef" THEN u.is_cf ELSE JSONparse(ls)

\* ProtectedRoute without the "isCfUser === null" branch
ProtectedRouteNoUnknown(l, u, c) ==
  IF l THEN "spinner"
  ELSE IF u = NoUser THEN "redirect"
  ELSE IF c = "false" THEN "redirect"
  ELSE "children"

\* ProtectedRoute without the "!user" branch
ProtectedRouteNoUserCheck(l, u, c) ==
  IF l THEN "spinner"
  ELSE IF c = "null" THEN "spinner"
  ELSE IF c = "false" THEN "redirect"
  ELSE "children"

\* ProtectedRoute, components/ProtectedRoute.tsx
ProtectedRoute(l, u, c) ==
  IF l THEN "spinner"
  ELSE IF u = NoUser THEN "redirect"
  ELSE IF c = "null" THEN "spinner"
  ELSE IF c = "false" THEN "redirect"
  ELSE "children"

\* the other revision without the "!user ||" test
ProtectedRouteRevNoUserCheck(l, u, c) ==
  IF l \/ c = "null" THEN "spinner"
  ELSE IF c = "false" THEN "redirect"
  ELSE "children"

\* ProtectedRoute, the other revision of the same component
ProtectedRouteRev(l, u, c) ==
  IF l \/ c = "null" THEN "spinner"
  ELSE IF u = NoUser \/ c = "false" THEN "redirect"
  ELSE "children"

guard == ProtectedRoute(loading, user, isCfUser)

\* Login: "if (user) return <Navigate to=\"/dashboard\">", else the form
Login(u) == IF u # NoUser THEN "dashboard" ELSE "form"

\* ------------------------------ RestaurantModal.tsx: the CEP of the form
Ceps == {"01001000", "20040020", "30130010", "40020000"}     \* 8 digits
CepInputs == Ceps \cup {"", "0100"}               \* formatCep(e.target.value)
NoAddress == "<none>"     \* street, city, uf empty
NoLookup == "<none>"      \* no supabase.functions.invoke in flight
CepOutcomes == {"data", "nodata", "error"}

\* useState initial values and an empty form, lines 48-51, 53-67
ModalClosed ==
  [cep |-> "", address |-> NoAddress, cepSearched |-> FALSE,
   cepLoading |-> FALSE, cepError |-> "", lookup |-> NoLookup]

\* the address the lookup returns is named by the CEP it belongs to
AddressOf(cep) == cep

\* ------------------------- toggleFavoriteMutation, NewPartnershipModal.tsx
MaxMutations == 1    \* toggleFavoriteMutation runs suspended at the same time
Oscs == {"osc1", "osc2", "osc3"}        \* partnerships of the restaurant
DbOutcomes == {"ok", "error"}           \* result of a supabase update

NoMutation == [osc |-> "none", isFavorite |-> FALSE, pc |-> "idle",
               clear |-> "none", set |-> "none", before |-> {}]

\* the rows with is_favorite = true, no mutation in flight
FavsIdle == [favorite |-> {}, muts |-> EmptyBag, done |-> NoMutation]

PagesIdle == modal = ModalClosed /\ favs = FavsIdle

\* ------------------------------------------------------------------ Init
Mounted ==
  /\ user = NoUser
  /\ session = NullSession
  /\ loading = TRUE
  /\ isCfUser = "null"
  /\ cbs = EmptyBag
  /\ outP = 0
  /\ inP = 0
  /\ finished = NoRun
  /\ fired = FALSE

Init ==
  /\ Mounted
  /\ localStorage = Absent
  /\ initP = NewRun("init", "getSession")
  /\ verified = {}
  /\ PagesIdle
  /\ harness = HarnessOff

\* ------------------------------------------------- init(), lines 24-67
\* init without the "if (!session)" return
InitResolveNoSessionCheck(s, c) ==
  IF c # "null" THEN BooleanOf(c) ELSE "rpc"

\* lines 36-44: what init does once session and cached are known
\* ("rpc": go on to the remote check)
InitResolve(s, c) ==
  IF s = NullSession THEN "false"
  ELSE IF c # "null" THEN BooleanOf(c)
  ELSE "rpc"

\* init without the outer catch and finally: an error sets nothing
InitNoCatch == [isCfUser |-> isCfUser, loading |-> loading]

\* lines 61-66: what the outer catch and the finally of init set
InitCatch == [isCfUser |-> "false", loading |-> FALSE]

\* await supabase.auth.getSession() returns (or rejects); lines 26-44, 61-66
InitGetSession(res, s) ==
  /\ initP.pc = "getSession"
  /\ LET c == Cached(s.user, localStorage)
         run == [initP EXCEPT !.gs = res, !.s = IF res = "ok" THEN s ELSE NullSession,
                              !.lsAt = localStorage]
     IN
     IF res = "reject" THEN
       \* outer catch + finally
       /\ isCfUser' = InitCatch.isCfUser
       /\ loading' = InitCatch.loading
       /\ initP' = NewRun("init", "done")
       /\ finished' = Done(run)
       /\ UNCHANGED <<user, session>>
     ELSE
       /\ session' = s
       /\ user' = s.user
       /\ IF c = "throw" THEN
            \* JSON.parse throws: outer catch + finally
            /\ isCfUser' = InitCatch.isCfUser
            /\ loading' = InitCatch.loading
            /\ initP' = NewRun("init", "done")
            /\ finished' = Done(run)
          ELSE IF InitResolve(s, c) = "rpc" THEN
            /\ initP' = [run EXCEPT !.pc = "rpc"]
            /\ finished' = NoRun
            /\ UNCHANGED <<isCfUser, loading>>
          ELSE
            /\ isCfUser' = InitResolve(s, c)
            /\ loading' = FALSE
            /\ initP' = NewRun("init", "done")
            /\ finished' = Done(run)
  /\ UNCHANGED <<localStorage, cbs, outP, verified, fired, harness, inP, modal, favs>>

\* InitRpc without the "if (error || !isCf) throw": a falsy answer goes on
InitRpcNoThrow(o) ==
  /\ initP.pc = "rpc"
  /\ finished' = NoRun
  /\ IF o \in {"true", "false"} THEN
       /\ isCfUser' = BooleanOf(o)
       /\ initP' = [initP EXCEPT !.rpc = o, !.pc = "updateUser"]
       /\ verified' = IF o = "true" THEN verified \cup {initP.s.user.id}
                      ELSE verified
     ELSE
       /\ initP' = [initP EXCEPT !.rpc = o, !.pc = "signOut"]
       /\ UNCHANGED <<isCfUser, verified>>
  /\ UNCHANGED <<user, session, loading, localStorage, cbs, outP, fired, harness, inP, modal, favs>>

\* InitRpc with the cache written before the answer is looked at
InitRpcWriteFirst(o) ==
  /\ initP.pc = "rpc"
  /\ finished' = NoRun
  /\ localStorage' = "true"
  /\ IF o = "true" THEN
       /\ isCfUser' = BooleanOf(o)
       /\ initP' = [initP EXCEPT !.rpc = o, !.pc = "updateUser"]
       /\ verified' = verified \cup {initP.s.user.id}
     ELSE
       /\ initP' = [initP EXCEPT !.rpc = o, !.pc = "signOut"]
       /\ UNCHANGED <<isCfUser, verified>>
  /\ UNCHANGED <<user, session, loading, cbs, outP, fired, harness, inP, modal, favs>>

\* await supabase.rpc('is_cf') returns (or rejects); lines 47-52, 54-56
InitRpc(o) ==
  /\ initP.pc = "rpc"
  /\ finished' = NoRun
  /\ IF o = "true" THEN
       /\ isCfUser' = BooleanOf(o)
       /\ initP' = [initP EXCEPT !.rpc = o, !.pc = "updateUser"]
       /\ verified' = verified \cup {initP.s.user.id}
     ELSE
       /\ initP' = [initP EXCEPT !.rpc = o, !.pc = "signOut"]
       /\ UNCHANGED <<isCfUser, verified>>
  /\ UNCHANGED <<user, session, loading, localStorage, cbs, outP, fired, harness, inP, modal, favs>>

\* await supabase.auth.updateUser(...) returns (or rejects); lines 52-56, 64-66
InitUpdateUser(o) ==
  /\ initP.pc = "updateUser"
  /\ IF o = "reject" THEN
       /\ initP' = [initP EXCEPT !.upd = o, !.pc = "signOut"]
       /\ finished' = NoRun
       /\ UNCHANGED <<localStorage, loading>>
     ELSE
       /\ localStorage' = JSONstringify(initP.rpc)
       /\ loading' = FALSE
       /\ initP' = NewRun("init", "done")
       /\ finished' = Done([initP EXCEPT !.upd = o])
  /\ UNCHANGED <<user, session, isCfUser, cbs, outP, verified, fired, harness, inP, modal, favs>>

\* await supabase.auth.signOut({scope:'local'}) returns (or rejects); lines 56-66
InitSignOut(o) ==
  /\ initP.pc = "signOut"
  /\ IF o = "reject" THEN
       \* the inner catch throws: outer catch + finally
       UNCHANGED localStorage
     ELSE
       localStorage' = Absent
  /\ isCfUser' = "false"
  /\ loading' = FALSE
  /\ initP' = NewRun("init", "done")
  /\ finished' = Done([initP EXCEPT !.so = o, !.toast = (o # "reject")])
  /\ UNCHANGED <<user, session, cbs, outP, verified, fired, harness, inP, modal, favs>>

\* ------------------------------- onAuthStateChange callback, lines 73-108
\* a callback that takes a missing cached value as the answer (no check)
CbResolveNoCheck(s, c) ==
  IF s.user # NoUser THEN BooleanOf(c) ELSE "null"

\* lines 77-85, 102-105: what the callback does once cached is known
CbResolve(s, c) ==
  IF s.user # NoUser THEN (IF c # "null" THEN BooleanOf(c) ELSE "rpc")
  ELSE "null"

Replace(r, q) == (cbs (-) SetToBag({r})) (+) SetToBag({q})

\* a callback that goes back to "loading, unknown" while its check is awaited
CbPendingReloads == [isCfUser |-> "null", loading |-> TRUE]

\* lines 86-88: no setter is called before the remote check is awaited
CbPending == [isCfUser |-> isCfUser, loading |-> loading]

\* the provider fires a session-change event; lines 74-88, 102-107
OnAuthStateChange(s) ==
  /\ session' = s
  /\ user' = s.user
  /\ LET c == IF s.user # NoUser THEN Cached(s.user, localStorage) ELSE "null"
         run == [NewRun("cb", "start") EXCEPT !.s = s, !.lsAt = localStorage]
     IN
     IF c = "throw" THEN
       \* JSON.parse throws out of the callback
       /\ finished' = Escaped(run)
       /\ UNCHANGED <<isCfUser, loading, localStorage, cbs>>
     ELSE IF CbResolve(s, c) = "rpc" THEN
       /\ BagCardinality(cbs) < MaxHandlers
       /\ cbs' = cbs (+) SetToBag({[run EXCEPT !.pc = "rpc"]})
       /\ finished' = NoRun
       /\ isCfUser' = CbPending.isCfUser
       /\ loading' = CbPending.loading
       /\ UNCHANGED localStorage
     ELSE
       /\ isCfUser' = CbResolve(s, c)
       /\ localStorage' = IF s.user = NoUser THEN Absent ELSE localStorage
       /\ loading' = FALSE
       /\ finished' = Done(run)
       /\ UNCHANGED cbs
  /\ fired' = TRUE
  /\ UNCHANGED <<initP, outP, verified, harness, inP, modal, favs>>

\* await supabase.rpc('is_cf') returns (or rejects); lines 88-93, 95-97
CbRpc(o) ==
  \E r \in BagToSet(cbs) :
    /\ r.pc = "rpc"
    /\ finished' = NoRun
    /\ IF o = "true" THEN
         /\ isCfUser' = "true"
         /\ cbs' = Replace(r, [r EXCEPT !.rpc = o, !.pc = "updateUser"])
         /\ verified' = verified \cup {r.s.user.id}
       ELSE
         /\ cbs' = Replace(r, [r EXCEPT !.rpc = o, !.pc = "signOut"])
         /\ UNCHANGED <<isCfUser, verified>>
    /\ UNCHANGED <<user, session, loading, localStorage, initP, outP, fired, harness, inP, modal, favs>>

\* await supabase.auth.updateUser(...) returns (or rejects); lines 93-97, 107
CbUpdateUser(o) ==
  \E r \in BagToSet(cbs) :
    /\ r.pc = "updateUser"
    /\ IF o = "reject" THEN
         /\ cbs' = Replace(r, [r EXCEPT !.upd = o, !.pc = "signOut"])
         /\ finished' = NoRun
         /\ UNCHANGED <<localStorage, loading>>
       ELSE
         /\ localStorage' = JSONstringify(r.rpc)
         /\ loading' = FALSE
         /\ cbs' = cbs (-) SetToBag({r})
         /\ finished' = Done([r EXCEPT !.upd = o])
    /\ UNCHANGED <<user, session, isCfUser, initP, outP, verified, fired, harness, inP, modal, favs>>

\* await supabase.auth.signOut({scope:'local'}) returns (or rejects); lines 97-107
CbSignOut(o) ==
  \E r \in BagToSet(cbs) :
    /\ r.pc = "signOut"
    /\ cbs' = cbs (-) SetToBag({r})
    /\ IF o = "reject" THEN
         \* thrown inside the catch block: leaves the callback
         /\ finished' = Escaped([r EXCEPT !.so = o])
         /\ UNCHANGED <<localStorage, isCfUser, loading>>
       ELSE
         /\ localStorage' = Absent
         /\ isCfUser' = "false"
         /\ loading' = FALSE
         /\ finished' = Done([r EXCEPT !.so = o, !.toast = TRUE])
    /\ UNCHANGED <<user, session, initP, outP, verified, fired, harness, inP, modal, favs>>

\* --------------------------------------------- signOut(), lines 123-136
\* signOut() is called: runs up to await supabase.auth.signOut (line 126)
SignOutCall ==
  /\ outP < MaxSignOuts
  /\ outP' = outP + 1
  /\ finished' = NoRun
  /\ UNCHANGED <<user, session, loading, isCfUser, localStorage, initP, cbs,
                 verified, fired, harness, inP, modal, favs>>

\* signOut without try/catch/finally: a rejection skips the cleanup
SignOutNoFinally(o) ==
  IF o = "reject"
  THEN [user |-> user, session |-> session, isCfUser |-> isCfUser,
        localStorage |-> localStorage, threw |-> TRUE]
  ELSE [user |-> NoUser, session |-> NullSession, isCfUser |-> "null",
        localStorage |-> Absent, threw |-> FALSE]

\* lines 127-135: what the catch and finally blocks leave behind
SignOutFinally(o) ==
  [user |-> NoUser, session |-> NullSession, isCfUser |-> "null",
   localStorage |-> Absent, threw |-> FALSE]

\* the provider call returns (or rejects); lines 127-135
SignOutReturn(o) ==
  /\ outP > 0
  /\ LET f == SignOutFinally(o) IN
       /\ user' = f.user
       /\ session' = f.session
       /\ isCfUser' = f.isCfUser
       /\ localStorage' = f.localStorage
       /\ finished' = [Done(NewRun("signOut", "signOut")) EXCEPT
                          !.so = o, !.threw = f.threw]
  /\ outP' = outP - 1
  /\ UNCHANGED <<loading, initP, cbs, verified, fired, harness, inP, modal, favs>>

\* --------------------------------------------- signIn(), lines 113-121
\* signIn() is called: runs up to await signInWithPassword (line 114)
SignInCall ==
  /\ inP < MaxSignIns
  /\ inP' = inP + 1
  /\ finished' = NoRun
  /\ UNCHANGED <<user, session, loading, isCfUser, localStorage, initP, cbs,
                 outP, verified, fired, harness, modal, favs>>

\* signIn that takes over the session the provider returned
SignInAdopts(o, s) ==
  IF o = "ok"
  THEN [user |-> s.user, session |-> s, isCfUser |-> isCfUser,
        loading |-> loading, localStorage |-> localStorage]
  ELSE [user |-> user, session |-> session, isCfUser |-> isCfUser,
        loading |-> loading, localStorage |-> localStorage]

\* lines 114-120: the data of the answer is dropped, no setter is called
SignInKeeps(o, s) ==
  [user |-> user, session |-> session, isCfUser |-> isCfUser,
   loading |-> loading, localStorage |-> localStorage]

\* signInWithPassword returns (o = "ok" with session s, or an error result)
\* or rejects; lines 114-120.  A rejection is not caught in signIn.
SignInReturn(o, s) ==
  /\ inP > 0
  /\ LET f == SignInKeeps(o, s) IN
       /\ user' = f.user
       /\ session' = f.session
       /\ isCfUser' = f.isCfUser
       /\ loading' = f.loading
       /\ localStorage' = f.localStorage
  /\ finished' = [Done(NewRun("signIn", "signIn")) EXCEPT
                     !.si = o, !.threw = (o = "reject")]
  /\ inP' = inP - 1
  /\ UNCHANGED <<initP, cbs, outP, verified, fired, harness, modal, favs>>

\* ------------------------------------------ page load, lines 17-23 and 69
\* The page is loaded again: AuthProvider is constructed anew and init()
\* is called; runs of the previous page are gone, localStorage is kept.
Reload ==
  /\ user' = NoUser
  /\ session' = NullSession
  /\ loading' = TRUE
  /\ isCfUser' = "null"
  /\ cbs' = EmptyBag
  /\ outP' = 0
  /\ finished' = NoRun
  /\ fired' = FALSE
  /\ initP' = NewRun("init", "getSession")
  /\ inP' = 0
  /\ UNCHANGED <<localStorage, verified, harness, modal, favs>>

\* ------------------------------------------------------------------ Spec
Next ==
  \/ \E res \in GetOutcomes, s \in Sessions \cup {NullSession} :
       InitGetSession(res, s)
  \/ \E o \in RpcOutcomes : InitRpc(o)
  \/ \E o \in UpdOutcomes : InitUpdateUser(o)
  \/ \E o \in OutOutcomes : InitSignOut(o)
  \/ \E s \in Sessions \cup {NullSession} : OnAuthStateChange(s)
  \/ \E o \in RpcOutcomes : CbRpc(o)
  \/ \E o \in UpdOutcomes : CbUpdateUser(o)
  \/ \E o \in OutOutcomes : CbSignOut(o)
  \/ SignOutCall
  \/ \E o \in OutOutcomes : SignOutReturn(o)
  \/ Reload

\* signIn() reads and writes none of the variables the other runs use; its
\* runs are part of SpecSignIn, under Spec inP stays 0.
Spec == Init /\ [][Next]_vars

\* ------------------------------------------------------------ SpecRace
\* One session, one answer per collaborator; init alone, then the callback
\* alone, then both at once, each from a freshly loaded page with an empty
\* cache.  The
\* final <<isCfUser, loading>> of the first two runs is kept in harness.
RaceInit ==
  /\ Mounted
  /\ verified = {}
  /\ PagesIdle
  /\ initP = NewRun("init", "getSession")
  /\ localStorage = Absent
  /\ \E s \in Sessions \cup {NullSession},
        r \in RpcOutcomes, u \in UpdOutcomes, o \in OutOutcomes :
        harness = [HarnessOff EXCEPT !.phase = "init", !.s = s,
                                     !.r = r, !.u = u, !.o = o]

RaceGetSession ==
  /\ harness.phase \in {"init", "both"}
  /\ InitGetSession("ok", harness.s)

RaceEvent ==
  /\ harness.phase \in {"cb", "both"}
  /\ ~fired
  /\ OnAuthStateChange(harness.s)

\* the page as loaded for the next run of the scenario
RaceReset(ip) ==
  /\ user' = NoUser
  /\ session' = NullSession
  /\ loading' = TRUE
  /\ isCfUser' = "null"
  /\ localStorage' = Absent
  /\ cbs' = EmptyBag
  /\ finished' = NoRun
  /\ fired' = FALSE
  /\ initP' = ip
  /\ UNCHANGED <<outP, verified, inP, modal, favs>>

RaceInitAloneDone ==
  /\ harness.phase = "init"
  /\ initP.pc = "done"
  /\ harness' = [harness EXCEPT !.phase = "cb", !.resInit = <<isCfUser, loading>>]
  /\ RaceReset(NoRun)

RaceCbAloneDone ==
  /\ harness.phase = "cb"
  /\ fired /\ cbs = EmptyBag
  /\ harness' = [harness EXCEPT !.phase = "both", !.resCb = <<isCfUser, loading>>]
  /\ RaceReset(NewRun("init", "getSession"))

RaceBothDone ==
  /\ harness.phase = "both"
  /\ fired /\ cbs = EmptyBag /\ initP.pc = "done"
  /\ harness' = [harness EXCEPT !.phase = "done"]
  /\ UNCHANGED <<user, session, loading, isCfUser, localStorage, initP, cbs,
                 outP, verified, finished, fired, inP, modal, favs>>

NextRace ==
  \/ RaceGetSession
  \/ InitRpc(harness.r)
  \/ InitUpdateUser(harness.u)
  \/ InitSignOut(harness.o)
  \/ RaceEvent
  \/ CbRpc(harness.r)
  \/ CbUpdateUser(harness.u)
  \/ CbSignOut(harness.o)
  \/ RaceInitAloneDone
  \/ RaceCbAloneDone
  \/ RaceBothDone

SpecRace == RaceInit /\ [][NextRace]_vars

\* ---------------------------------------------------------- SpecSignIn
\* A visitor without session loads the page (init and the provider's initial
\* event both see no session), then submits the login form.  harness.phase
\* says whether the provider has accepted the credentials; once it has, it
\* delivers one session-change event with the new session harness.s and
\* answers its remote check with harness.r.
SignInInit ==
  /\ Mounted
  /\ localStorage = Absent
  /\ initP = NewRun("init", "getSession")
  /\ verified = {}
  /\ PagesIdle
  /\ \E s \in Sessions, r \in RpcOutcomes :
        harness = [HarnessOff EXCEPT !.phase = "loggedOut", !.s = s, !.r = r]

LoginGetSession ==
  /\ harness.phase = "loggedOut"
  /\ InitGetSession("ok", NullSession)

LoginInitialEvent ==
  /\ ~fired
  /\ OnAuthStateChange(NullSession)

\* Login.onSubmit: the form is shown while there is no user (part_009)
LoginSubmit ==
  /\ initP.pc = "done" /\ fired
  /\ user = NoUser
  /\ SignInCall

ProviderAccepts ==
  /\ harness.phase = "loggedOut"
  /\ inP > 0
  /\ harness' = [harness EXCEPT !.phase = "accepted"]
  /\ UNCHANGED <<user, session, loading, isCfUser, localStorage, initP, cbs,
                 outP, verified, finished, fired, inP, modal, favs>>

LoginSignedInEvent ==
  /\ harness.phase = "accepted"
  /\ session = NullSession
  /\ OnAuthStateChange(harness.s)

LoginSignInReturn(o) ==
  /\ (o = "ok") => harness.phase = "accepted"
  /\ SignInReturn(o, harness.s)

NextSignIn ==
  \/ LoginGetSession
  \/ LoginInitialEvent
  \/ LoginSubmit
  \/ ProviderAccepts
  \/ LoginSignedInEvent
  \/ \E o \in InOutcomes : LoginSignInReturn(o)
  \/ CbRpc(harness.r)
  \/ \E o \in UpdOutcomes : CbUpdateUser(o)
  \/ \E o \in OutOutcomes : CbSignOut(o)

SpecSignIn == SignInInit /\ [][NextSignIn]_vars

\* every call eventually returns: the provider delivers the event of an
\* accepted sign-in, and the remote check answers
SpecSignInFair ==
  /\ SpecSignIn
  /\ WF_vars(LoginSignedInEvent)
  /\ WF_vars(CbRpc(harness.r))

\* ---------------------------------------------------------- SpecStored
\* The page is loaded in a browser whose localStorage already holds some
\* value under the key: left by an earlier visit or put there by hand.
InitStored ==
  /\ Mounted
  /\ localStorage \in StoredValues
  /\ initP = NewRun("init", "getSession")
  /\ verified = {}
  /\ PagesIdle
  /\ harness = HarnessOff

SpecStored == InitStored /\ [][Next]_vars

\* ------------------------------------------------------------- SpecCep
\* An operator who got in: the pages behind the guard are shown.
Operator == [id |-> "A", is_cf |-> "undef"]

SignedIn ==
  /\ user = Operator
  /\ session = [user |-> Operator]
  /\ loading = FALSE
  /\ isCfUser = "true"
  /\ localStorage = "true"
  /\ initP = NewRun("init", "done")
  /\ cbs = EmptyBag
  /\ outP = 0
  /\ inP = 0
  /\ verified = {Operator.id}
  /\ finished = NoRun
  /\ fired = TRUE
  /\ harness = HarnessOff

\* handleCepChange, lines 155-164: v is formatCep(e.target.value)
HandleCepChange(v) ==
  /\ modal' = [modal EXCEPT !.cep = v, !.cepError = "",
                            !.cepSearched = FALSE, !.address = NoAddress]
  /\ UNCHANGED <<authVars, favs>>

\* the search button is clicked (enabled: lines 298-303, which leaves the
\* length test of lines 85-88 without effect): fetchCepInfo runs up to
\* await supabase.functions.invoke with the CEP of the form, lines 90-100
FetchCepInfo ==
  /\ ~modal.cepLoading
  /\ modal.cep \in Ceps
  /\ modal' = [modal EXCEPT !.cepLoading = TRUE, !.cepError = "",
                            !.lookup = modal.cep]
  /\ UNCHANGED <<authVars, favs>>

\* the lookup answers: data, neither data nor error, or an error (returned
\* or thrown); lines 102-116
CepResponse(o) ==
  /\ modal.lookup # NoLookup
  /\ modal' =
       IF o = "data" THEN
         [modal EXCEPT !.address = AddressOf(modal.lookup),
                       !.cepSearched = TRUE,
                       !.cepLoading = FALSE, !.lookup = NoLookup]
       ELSE IF o = "nodata" THEN
         [modal EXCEPT !.cepLoading = FALSE, !.lookup = NoLookup]
       ELSE
         [modal EXCEPT !.cepError = "CEP invalido", !.cepSearched = FALSE,
                       !.cepLoading = FALSE, !.lookup = NoLookup]
  /\ UNCHANGED <<authVars, favs>>

\* closeModal, lines 75-82: reset() empties the form
CloseModal ==
  /\ modal' = [modal EXCEPT !.cep = "", !.address = NoAddress,
                            !.cepError = "", !.cepSearched = FALSE]
  /\ UNCHANGED <<authVars, favs>>

CepInit ==
  /\ SignedIn
  /\ PagesIdle

NextCep ==
  \/ \E v \in CepInputs : HandleCepChange(v)
  \/ FetchCepInfo
  \/ \E o \in CepOutcomes : CepResponse(o)
  \/ CloseModal

SpecCep == CepInit /\ [][NextCep]_vars

\* -------------------------------------------------------- SpecFavorite
\* toggleFavoriteMutation.mutate({oscId, isFavorite: !is_favorite}) is
\* called from the heart button (lines 341-344): mutationFn runs up to its
\* first await, lines 164-178
ToggleFavorite(osc) ==
  /\ BagCardinality(favs.muts) < MaxMutations
  /\ LET isFavorite == osc \notin favs.favorite
         m == [NoMutation EXCEPT !.osc = osc, !.isFavorite = isFavorite,
                                 !.pc = IF isFavorite THEN "clear" ELSE "set",
                                 !.before = favs.favorite]
     IN favs' = [favs EXCEPT !.muts = @ (+) SetToBag({m}),
                             !.done = NoMutation]
  /\ UNCHANGED <<authVars, modal>>

\* update({is_favorite: false}).eq('restaurant_id', ...) answers; its
\* result is not looked at; lines 167-178
FavoriteCleared(o) ==
  \E m \in BagToSet(favs.muts) :
    /\ m.pc = "clear"
    /\ favs' = [favs EXCEPT
                  !.favorite = IF o = "ok" THEN {} ELSE @,
                  !.muts = (@ (-) SetToBag({m}))
                           (+) SetToBag({[m EXCEPT !.clear = o, !.pc = "set"]}),
                  !.done = NoMutation]
    /\ UNCHANGED <<authVars, modal>>

\* update({is_favorite: isFavorite}).eq(...).eq('osc_id', oscId) answers:
\* "if (error) throw error", then onSuccess or onError; lines 174-189
FavoriteSet(o) ==
  \E m \in BagToSet(favs.muts) :
    /\ m.pc = "set"
    /\ favs' = [favs EXCEPT
                  !.favorite = IF o # "ok" THEN @
                               ELSE IF m.isFavorite THEN @ \cup {m.osc}
                               ELSE @ \ {m.osc},
                  !.muts = @ (-) SetToBag({m}),
                  !.done = [m EXCEPT !.set = o,
                                     !.pc = IF o = "ok" THEN "success"
                                            ELSE "failed"]]
    /\ UNCHANGED <<authVars, modal>>

\* the restaurant has at most one favorite partnership to begin with
FavoriteInit ==
  /\ SignedIn
  /\ modal = ModalClosed
  /\ \E f \in SUBSET Oscs :
       /\ Cardinality(f) <= 1
       /\ favs = [FavsIdle EXCEPT !.favorite = f]

NextFavorite ==
  \/ \E osc \in Oscs : ToggleFavorite(osc)
  \/ \E o \in DbOutcomes : FavoriteCleared(o)
  \/ \E o \in DbOutcomes : FavoriteSet(o)

SpecFavorite == FavoriteInit /\ [][NextFavorite]_vars

\* ------------------------------------------------------------ properties
guardRev == ProtectedRouteRev(loading, user, isCfUser)
Quiescent == initP.pc = "done" /\ cbs = EmptyBag /\ outP = 0
HandlerDone == finished.kind \in {"init", "cb"}

\* C1: the guard renders the protected content only for a user who carries
\* an embedded is_cf = true or for whom a remote check returned a truthy
\* result.
C1_NoAccessWithoutCheck ==
  guard = "children" => (user.is_cf = "true" \/ user.id \in verified)

\* C2: with the session absent and no run of init, the callback or signOut
\* in flight, the Authorization Cache is empty.
C2_CacheEmptyWithoutSession ==
  (session = NullSession /\ Quiescent) => localStorage = Absent

\* C3: when the remote check of a run of init or of the callback errored,
\* rejected or returned a falsy result, then as the run finishes isCfUser is
\* false, the cache is empty and a local sign-out was attempted.
C3_FailClosedOnCheckFailure ==
  (HandlerDone /\ finished.rpc \in RpcFails) =>
     /\ isCfUser = "false"
     /\ localStorage = Absent
     /\ finished.so # "none"

C6_NoSessionFailsClosed ==
  (finished.kind = "init" /\ finished.gs = "ok" /\ finished.s = NullSession) =>
     (isCfUser = "false" /\ ~loading /\ finished.rpc = "none")

C6_Witness ==
  finished.kind = "init" /\ finished.gs = "ok" /\ finished.s = NullSession

\* C7 (as stated): a run of init or of the callback that got a session while
\* the cache held true does not call the remote check and ends with isCfUser
\* true.
C7_CacheHitAuthorizes ==
  (HandlerDone /\ finished.s # NullSession /\ finished.lsAt = "true") =>
     (finished.rpc = "none" /\ isCfUser = "true")

\* C7 (amended): such a run does not call the remote check; it ends with
\* isCfUser true unless the session's user carries an embedded is_cf = false,
\* which goes before the cache and ends with isCfUser false.
C7_CacheHitSkipsCheck ==
  (HandlerDone /\ finished.s # NullSession /\ finished.lsAt = "true") =>
     /\ finished.rpc = "none"
     /\ isCfUser = (IF finished.s.user.is_cf = "false" THEN "false" ELSE "true")

C7_Witness ==
  /\ HandlerDone /\ finished.lsAt = "true"
  /\ finished.s # NullSession /\ finished.s.user.is_cf = "undef"
  /\ isCfUser = "true"

\* C8: when the remote check of a run of init or of the callback returned
\* true, then as the run finishes isCfUser is true, the cache holds true and
\* the metadata update was attempted.
C8_SuccessPersists ==
  (HandlerDone /\ finished.rpc = "true") =>
     /\ isCfUser = "true"
     /\ localStorage = "true"
     /\ finished.upd # "none"

\* C9: when signOut() returns, user, session and isCfUser are reset and the
\* cache is empty, also when the provider call rejected; nothing is thrown to
\* the caller.
C9_SignOutClears ==
  finished.kind = "signOut" =>
     /\ user = NoUser /\ session = NullSession /\ isCfUser = "null"
     /\ localStorage = Absent
     /\ ~finished.threw

C9_Witness == finished.kind = "signOut" /\ finished.so = "reject"

\* C10: for one session and one answer per collaborator, init and the
\* callback run at once end in the same <<isCfUser, loading>> as init alone
\* and as the callback alone.
C10_RaceIdempotent ==
  harness.phase = "done" =>
     /\ <<isCfUser, loading>> = harness.resInit
     /\ <<isCfUser, loading>> = harness.resCb

\* C11: when the remote check of a run of init or of the callback returned
\* true and the metadata update then failed (error result or rejection),
\* the run performs no sign-out and shows no error, and as it finishes the
\* cache holds true.
C11_UpdateFailureKeepsDecision ==
  (HandlerDone /\ finished.rpc = "true" /\ finished.upd \in {"error", "reject"}) =>
     /\ finished.so = "none"
     /\ ~finished.toast
     /\ localStorage = "true"

\* C12: with no run of init, the callback or signOut in flight, an absent
\* session never goes with isCfUser unknown.
C12_NoSessionNeverUnknown ==
  (session = NullSession /\ Quiescent) => isCfUser # "null"

\* C13: init and the callback started for the same session never both wait
\* for the answer of rpc('is_cf').
C13_OneCheckInFlight ==
  ~(/\ initP.pc = "rpc"
    /\ \E r \in BagToSet(cbs) : r.pc = "rpc" /\ r.s = initP.s)

\* C14: a run of init or of the callback that got a session without embedded
\* flag while the cache held a malformed value throws nothing and goes on to
\* the remote check, as with an empty cache.
C14_MalformedCacheAsAbsent ==
  (/\ HandlerDone /\ finished.lsAt = Malformed
   /\ finished.s # NullSession /\ finished.s.user.is_cf = "undef") =>
     (~finished.threw /\ finished.rpc # "none")

\* C15: no run of init, of the callback or of signOut ends by throwing to
\* its caller.
C15_NothingEscapes ==
  finished.kind # "none" => ~finished.threw

\* C16: the step in which getSession rejects ends init with isCfUser false
\* and loading false, without a remote check, and leaves an absent user and
\* an absent session absent.
C16_GetSessionFailureIsNoSession ==
  [][(initP.pc = "getSession" /\ finished'.kind = "init"
        /\ finished'.gs = "reject") =>
       /\ isCfUser' = "false" /\ ~loading'
       /\ initP'.pc = "done" /\ finished'.rpc = "none"
       /\ (user = NoUser => user' = NoUser)
       /\ (session = NullSession => session' = NullSession)]_vars

C16_Witness ==
  /\ finished.kind = "init" /\ finished.gs = "reject"
  /\ user = NoUser /\ session = NullSession
  /\ isCfUser = "false" /\ ~loading

\* C17: as a run of init or of the callback ends, loading is false.
C17_RunEndsLoaded ==
  HandlerDone => ~loading

\* some run of the callback waits for the answer of updateUser
CbAtUpdateUser == \E r \in BagToSet(cbs) : r.pc = "updateUser"

\* C18: on the successful path the cache holds true by the time the metadata
\* update is attempted: the step in which a run of init or of the callback
\* takes the truthy answer of the remote check and calls updateUser leaves
\* the cache at true.
C18_CacheBeforeUpdate ==
  [][/\ (initP.pc = "rpc" /\ initP'.pc = "updateUser") => localStorage' = "true"
     /\ (~CbAtUpdateUser /\ CbAtUpdateUser') => localStorage' = "true"]_vars

\* C19: the cache is written only in the step in which a run of init or of
\* the callback whose own remote check returned true finishes, and the value
\* written is true.
C19_CacheWrittenOnlyAfterOwnCheck ==
  [][(localStorage' # localStorage /\ localStorage' # Absent) =>
       (HandlerDone' /\ finished'.rpc = "true" /\ localStorage' = "true")]_vars

C19_Witness ==
  /\ HandlerDone /\ finished.rpc = "true" /\ finished.lsAt = Absent
  /\ localStorage = "true"

\* C20: a run publishes user, session and isCfUser together with
\* loading = false, so while loading is true they are as at mount.
C20_PublishedWithLoading ==
  loading => (isCfUser = "null" /\ user = NoUser /\ session = NullSession)

\* C21: on a loaded page (loading false after the step) isCfUser goes from
\* true or false to null only in a step in which a new session arrives.
C21_UnknownOnlyOnNewSession ==
  [][(isCfUser # "null" /\ isCfUser' = "null" /\ ~loading') =>
       (session' # NullSession /\ session' # session)]_vars

\* C22: neither the call of signIn() nor its return changes user, session,
\* isCfUser, loading or the cache.
C22_SignInChangesNothing ==
  [][(inP' # inP) =>
       UNCHANGED <<user, session, isCfUser, loading, localStorage>>]_vars

C22_Witness ==
  /\ finished.kind = "signIn" /\ finished.si = "ok"
  /\ user = NoUser /\ session = NullSession

\* C23: two runs that end one right after the other for the same session do
\* not both show the error notification.
C23_OneNotification ==
  [][~(/\ finished.toast /\ finished'.toast
       /\ finished.s # NullSession /\ finished'.s = finished.s)]_vars

\* C24: starting from an empty cache, the cache is empty or holds true.
C24_CacheNeverFalse ==
  localStorage \in {Absent, "true"}

C24_Witness ==
  /\ HandlerDone /\ finished.rpc = "false" /\ finished.so = "ok"
  /\ localStorage = Absent

\* C25: once loading is false, only a new page load (the provider mounted
\* again) makes it true: no step of init, the callback or signOut does.
C25_LoadingMonotonic ==
  [][(~loading /\ loading') =>
       /\ initP' = NewRun("init", "getSession")
       /\ cbs' = EmptyBag /\ outP' = 0 /\ ~fired'
       /\ user' = NoUser /\ session' = NullSession /\ isCfUser' = "null"]_vars

C25_Witness ==
  /\ ~loading
  /\ \E r \in BagToSet(cbs) : r.pc = "rpc"

\* C26: with no run in flight, the guard does not send to /login a user
\* whom the login page sends back to /dashboard.
C26_NoRedirectCycle ==
  Quiescent => ~(guard = "redirect" /\ Login(user) = "dashboard")

\* C27: once the provider has accepted the sign-in of a user whose remote
\* check answers true (and who carries no embedded is_cf = false), the guard
\* eventually renders the protected content.
C27_OperatorGetsIn ==
  (/\ harness.phase = "accepted" /\ session = NullSession
   /\ harness.r = "true" /\ harness.s.user.is_cf # "false")
    ~> (guard = "children")

C27_Witness ==
  /\ harness.phase = "accepted" /\ harness.r = "true"
  /\ harness.s.user.is_cf = "undef"
  /\ user = harness.s.user /\ user.id \in verified
  /\ guard = "children"

C29_AddressMatchesCep ==
  modal.cepSearched => modal.address = AddressOf(modal.cep)

\* C30: when a mutation with isFavorite = true reports success, the chosen
\* OSC is the only favorite of the restaurant; when it reports failure, the
\* favorites it found are still marked.
C30_OneFavoriteOrUnchanged ==
  /\ (favs.done.pc = "success" /\ favs.done.isFavorite) =>
        favs.favorite = {favs.done.osc}
  /\ (favs.done.pc = "failed" /\ favs.done.isFavorite) =>
        favs.done.before \subseteq favs.favorite

====
